---- MODULE Spec2Model ----
(***************************************************************************)
(* Model of the page codec of src/src/crypto.c (SQLite Cipher): the codec  *)
(* context (key, random salt, scratch page buffer), the page transform     *)
(* sqlite3Codec, sqlite3CodecAttach, sqlite3_key, sqlite3_rekey and        *)
(* sqlite3CodecGetKey, together with the pager that stores what the codec  *)
(* returns.  Memory is a heap of malloc'ed blocks, so that a write past    *)
(* the end of the scratch buffer has a place to land.                      *)
(***************************************************************************)
EXTENDS Integers, Sequences, FiniteSets, TLC

(* ------------------------------------------------------------------ *)
(* Bounds of the model                                                 *)
(* ------------------------------------------------------------------ *)

\* key length of the cipher, in bytes (EVP_CIPHER_key_length(CIPHER); CIPHER
\* is set in crypto.h): kept small, every length below is relative to it
KEY_SZ == 2

\* calls (of any entry point) in one run of the program
MaxCalls == 3

\* calls in one run of the pager scenario: one attach, then writes and reads
MaxRWCalls == 5

(* ------------------------------------------------------------------ *)
(* Program constants                                                   *)
(* ------------------------------------------------------------------ *)

\* the cleartext region at the start of page 1
HDR_SZ == 24

\* the length of the random salt (ctx->rand)
RAND_SZ == 16

\* sizeof(Pgno)
PGNO_SZ == 4

\* "SQLite format 3\000", the 16 bytes every plaintext page 1 starts with
SQLITE_FILE_HEADER ==
  <<83, 81, 76, 105, 116, 101, 32, 102, 111, 114, 109, 97, 116, 32, 51, 0>>

\* db->nDb: slot 0 is the main database, slot 1 the temp database
DBs == {0, 1}

\* the page numbers: page 1, with its cleartext header, and another page
Pgnos == {1, 2}

\* the page size a Btree starts with, and the sizes it may be set to
DefaultPageSize == HDR_SZ + 3
PageSizes == {HDR_SZ + 2, HDR_SZ + 3, HDR_SZ + 7}

\* the mode values the pager passes (0, 2, 3 decrypt; 6, 7 encrypt), and one
\* value the switch does not know
DecryptModes == {0, 2, 3}
EncryptModes == {6, 7}

NULL == 0

\* what the variables the caller passes by reference may hold before the call:
\* the caller need not have set them
Priors == {0, 77}

(* ------------------------------------------------------------------ *)
(* Bytes and sequences                                                 *)
(* ------------------------------------------------------------------ *)

Fill(n, v) == [i \in 1..n |-> v]

Take(s, n) == SubSeq(s, 1, IF n < Len(s) THEN n ELSE Len(s))

Drop(s, n) == SubSeq(s, n + 1, Len(s))

\* memcpy(dst, src, n): the first n bytes of dst become the first n of src
memcpy(dst, src, n) == Take(src, n) \o Drop(dst, n)

(* ------------------------------------------------------------------ *)
(* OpenSSL: the digest and the cipher, as the code uses them           *)
(* ------------------------------------------------------------------ *)

RECURSIVE Mix(_, _)
Mix(s, acc) ==
  IF s = <<>> THEN acc ELSE Mix(Tail(s), (acc * 31 + Head(s) + 1) % 251)

\* the digest's output length; line 203 asserts it equals the key length
DIGEST_SZ == KEY_SZ

\* EVP_Digest{Init,Update,Final}: a deterministic function of the bytes fed
\* (m ranges over one value: the mix is computed once, not once per byte)
EVP_Digest(s) ==
  CHOOSE md \in {[i \in 1..DIGEST_SZ |-> (m + 13 * i) % 256] : m \in {Mix(s, 7)}} :
    TRUE

\* the page number as the sizeof(pgno) bytes the digest reads
PgnoBytes(pgno) == [i \in 1..PGNO_SZ |-> (pgno \div (256 ^ (i - 1))) % 256]

codec_page_hash(pgno, in, inLen) == EVP_Digest(Take(in, inLen) \o PgnoBytes(pgno))

codec_passphrase_hash(in, inLen) == EVP_Digest(Take(in, inLen))

\* EVP_CipherInit/Update/Final with padding off: length preserving, and
\* decryption under the same key and iv inverts encryption
\* (ks ranges over one value: the key stream is computed once)
EVP_Cipher(key, iv, mode, in) ==
  CHOOSE out \in
    {[i \in 1..Len(in) |->
        IF mode = 1 THEN (in[i] + ks + i) % 256
                    ELSE (in[i] - ks - i) % 256] : ks \in {Mix(key \o iv, 3)}} :
    TRUE

\* codec_cipher(ctx, pgno, mode, size, in, out): the size bytes written to out
codec_cipher(key, rand, pgno, mode, size, in) ==
  LET iv == codec_page_hash(pgno, rand, RAND_SZ)
  IN  EVP_Cipher(key, iv, mode, Take(in, size))

(* ------------------------------------------------------------------ *)
(* State                                                               *)
(* ------------------------------------------------------------------ *)

VARIABLES
  running,    \* FALSE once assert() or a memory fault has ended the process
  hasBt,      \* hasBt[i]: db->aDb[i].pBt is not NULL
  pageSize,   \* pageSize[i]: sqlite3BtreeGetPageSize(db->aDb[i].pBt)
  disk,       \* disk[i][n]: the bytes the pager stored for page n (<<>>: none)
  written,    \* written[i][n]: the plaintext, key and salt of the last write
  heap,       \* the blocks sqlite3_malloc returned, in allocation order
  ctxs,       \* every codec_ctx allocated, in allocation order
  codec,      \* codec[i]: the ctx the pager of database i calls (0: none)
  last,       \* what the last call was given and what it returned
  fileExisted,\* the file of database 0 existed before the program started
  p1done,     \* <<k, emode>>: context k has transformed page 1 in mode emode
  nCalls      \* calls made so far

vars == <<running, hasBt, pageSize, disk, written, heap, ctxs, codec,
          last, fileExisted, p1done, nCalls>>

(* ------------------------------------------------------------------ *)
(* Memory: blocks of the heap, and what lies past the end of a block   *)
(* ------------------------------------------------------------------ *)

\* An access past the end of a block is undefined. What it finds there
\* depends on the allocator; the outcomes modelled are
\*   "slack"    unused padding: bytes written past the end stay there
\*   "adjacent" the block allocated next
\*   "guard"    nothing mapped: the access ends the process
Layouts == {"slack", "adjacent", "guard"}

Block(bytes) == [data |-> bytes, slack |-> <<>>]

\* an access of n bytes at block a that the build traps
Faults(layout, h, a, n) == layout = "guard" /\ n > Len(h[a].data)

\* the n bytes found at the start of block a
RECURSIVE MemRead(_, _, _, _)
MemRead(layout, h, a, n) ==
  LET d == h[a].data
      past == n - Len(d)
  IN  IF past <= 0 THEN Take(d, n)
      ELSE IF layout = "adjacent" /\ a + 1 <= Len(h)
           THEN d \o MemRead(layout, h, a + 1, past)
           ELSE d \o Take(h[a].slack \o Fill(past, 0), past)

\* the heap after bytes b are written at the start of block a
RECURSIVE MemWrite(_, _, _, _)
MemWrite(layout, h, a, b) ==
  LET d == h[a].data
      past == Len(b) - Len(d)
  IN  IF past <= 0 THEN [h EXCEPT ![a].data = memcpy(d, b, Len(b))]
      ELSE IF layout = "adjacent" /\ a + 1 <= Len(h)
           THEN MemWrite(layout, [h EXCEPT ![a].data = Take(b, Len(d))], a + 1,
                         Drop(b, Len(d)))
           ELSE [h EXCEPT ![a].data = Take(b, Len(d)),
                          ![a].slack = Drop(b, Len(d))
                                       \o Drop(h[a].slack, past)]

(* ------------------------------------------------------------------ *)
(* sqlite3Codec: the page transform                                    *)
(* ------------------------------------------------------------------ *)

\* emode of the switch on mode: 0 decrypt, 1 encrypt, -1 the default case
Emode(mode) ==
  IF mode \in DecryptModes THEN 0 ELSE IF mode \in EncryptModes THEN 1 ELSE -1

\* SaltHeap with the salt never read from the page
SaltHeap_Keep(layout, h, c, pData, pgno, emode) == h

\* SaltHeap with the salt read from every page that is decrypted
SaltHeap_AnyPage(layout, h, c, pData, pgno, emode) ==
  IF emode = 0
  THEN [h EXCEPT ![c.rand].data = memcpy(@, pData, RAND_SZ)]
  ELSE h

\* the salt the transform works with: a decrypt of page 1 first copies the
\* first 16 bytes of the page into ctx->rand
SaltHeap(layout, h, c, pData, pgno, emode) ==
  IF pgno = 1 /\ emode = 0
  THEN MemWrite(layout, h, c.rand, Take(pData, RAND_SZ))
  ELSE h

\* PageImage with the header of page 1 kept on every page
PageImage_EveryPage(key, rand, pData, pgno, emode, pg_sz) ==
  LET b0 == Take(pData, HDR_SZ)
      b1 == IF emode = 1 THEN memcpy(b0, rand, RAND_SZ)
                         ELSE memcpy(b0, SQLITE_FILE_HEADER, RAND_SZ)
  IN  b1 \o codec_cipher(key, rand, pgno, emode, pg_sz - HDR_SZ,
                         Drop(pData, HDR_SZ))

\* the pg_sz bytes the transform writes at ctx->buffer, given the key and the
\* salt it reads
PageImage(key, rand, pData, pgno, emode, pg_sz) ==
  IF pgno = 1
  THEN LET b0 == Take(pData, HDR_SZ)
           b1 == IF emode = 1 THEN memcpy(b0, rand, RAND_SZ)
                              ELSE memcpy(b0, SQLITE_FILE_HEADER, RAND_SZ)
       IN  b1 \o codec_cipher(key, rand, pgno, emode, pg_sz - HDR_SZ,
                              Drop(pData, HDR_SZ))
  ELSE codec_cipher(key, rand, pgno, emode, pg_sz, pData)

\* sqlite3Codec working in place: the result is copied to pData in both modes
sqlite3Codec_InPlace(layout, h, c, pg_sz, pData, pgno, mode) ==
  LET emode == Emode(mode)
      h1 == SaltHeap(layout, h, c, pData, pgno, emode)
      W == PageImage(MemRead(layout, h1, c.key, c.key_sz),
                     MemRead(layout, h1, c.rand, RAND_SZ),
                     pData, pgno, emode, pg_sz)
      h2 == MemWrite(layout, h1, c.buffer, W)
  IN  IF emode = -1
      THEN [heap |-> h, ret |-> "pData", caller |-> pData, page |-> pData,
            fault |-> FALSE]
      ELSE [heap |-> h2, ret |-> "pData", caller |-> W, page |-> W,
            fault |-> FALSE]

\* sqlite3Codec(ctx, pData, pgno, mode) on heap h, with page size pg_sz and
\* with what lies past the end of a block given by layout:
\*   heap   the heap after the call
\*   ret    the buffer returned: "pData" or "buffer"
\*   caller the caller's buffer pData after the call
\*   page   the pg_sz bytes at the returned pointer
\*   fault  the call made an access the build traps
sqlite3Codec(layout, h, c, pg_sz, pData, pgno, mode) ==
  LET emode == Emode(mode)
      h1 == SaltHeap(layout, h, c, pData, pgno, emode)
      rand == MemRead(layout, h1, c.rand, RAND_SZ)
      key == MemRead(layout, h1, c.key, c.key_sz)
      W == PageImage(key, rand, pData, pgno, emode, pg_sz)
      h2 == MemWrite(layout, h1, c.buffer, W)
      back == MemRead(layout, h2, c.buffer, pg_sz)
  IN  IF emode = -1
      THEN [heap |-> h, ret |-> "pData", caller |-> pData, page |-> pData,
            fault |-> FALSE]
      ELSE [heap |-> h2,
            ret |-> IF emode = 1 THEN "buffer" ELSE "pData",
            caller |-> IF emode = 1 THEN pData ELSE back,
            page |-> back,
            fault |-> \/ Faults(layout, h1, c.key, c.key_sz)
                      \/ Faults(layout, h1, c.buffer, pg_sz)]

(* ------------------------------------------------------------------ *)
(* Credentials and sqlite3CodecAttach                                  *)
(* ------------------------------------------------------------------ *)

\* hexToInt of util.c, on the character code
hexToInt(h) == (h + 9 * ((h \div 64) % 2)) % 16

\* sqlite3HexToBlob(db, z, n): n/2 bytes, and the terminating zero
sqlite3HexToBlob(z, n) ==
  [i \in 1..(n \div 2) |-> hexToInt(z[2 * i - 1]) * 16 + hexToInt(z[2 * i])]
  \o <<0>>

\* sqlite3StrNICmp(zKey, "x'", 2) == 0
IsBlobLiteral(zKey) ==
  Len(zKey) >= 2 /\ zKey[1] \in {120, 88} /\ zKey[2] = 39

\* RAND_pseudo_bytes(ctx->rand, 16): every draw gives a salt not drawn
\* before; the k-th context allocated draws RandomSalt(k)
RandomSalt(k) == Fill(RAND_SZ, k)

\* The program state sqlite3CodecAttach works on
\*   [heap, ctxs, codec, running]
\* sqlite3CodecAttach with one scratch buffer shared by all contexts
sqlite3CodecAttach_SharedBuffer(st, nDb, zKey, nKey, ndebug) ==
  IF ~st.running \/ nKey = 0 \/ ~hasBt[nDb] THEN st
  ELSE
    LET a == Len(st.heap)
        keyd == IF IsBlobLiteral(zKey)
                THEN sqlite3HexToBlob(Drop(zKey, 2), nKey - 3)
                ELSE codec_passphrase_hash(zKey, nKey)
        ctx == [key_sz |-> KEY_SZ, pBt |-> nDb,
                rand |-> a + 1, buffer |-> 2, key |-> a + 3]
    IN  [st EXCEPT
           !.heap = st.heap \o <<Block(RandomSalt(Len(st.ctxs) + 1)),
                                 Block(Fill(pageSize[nDb], 0)),
                                 Block(keyd)>>,
           !.ctxs = Append(st.ctxs, ctx),
           !.codec = [st.codec EXCEPT ![nDb] = Len(st.ctxs) + 1]]

\* sqlite3CodecAttach(db, nDb, zKey, nKey); ndebug: the build defines
\* NDEBUG, so assert() checks nothing
sqlite3CodecAttach(st, nDb, zKey, nKey, ndebug) ==
  IF ~st.running \/ nKey = 0 \/ ~hasBt[nDb] THEN st
  ELSE
    LET n == nKey - 3
        z == Drop(zKey, 2)
        blob == IsBlobLiteral(zKey)
        keyd == IF blob THEN sqlite3HexToBlob(z, n)
                        ELSE codec_passphrase_hash(zKey, nKey)
        a == Len(st.heap)
        ctx == [key_sz |-> KEY_SZ, pBt |-> nDb,
                rand |-> a + 1, buffer |-> a + 2, key |-> a + 3]
    IN  IF blob /\ (n \div 2) # KEY_SZ /\ ~ndebug
        THEN [st EXCEPT !.running = FALSE]
        ELSE [st EXCEPT
                !.heap = st.heap \o <<Block(RandomSalt(Len(st.ctxs) + 1)),
                                      Block(Fill(pageSize[nDb], 0)),
                                      Block(keyd)>>,
                !.ctxs = Append(st.ctxs, ctx),
                !.codec = [st.codec EXCEPT ![nDb] = Len(st.ctxs) + 1]]

\* sqlite3_key(db, pKey, nKey): the loop over db->aDb[0..nDb-1]
sqlite3_key(st, pKey, nKey, ndebug) ==
  sqlite3CodecAttach(sqlite3CodecAttach(st, 0, pKey, nKey, ndebug),
                     1, pKey, nKey, ndebug)

\* sqlite3_rekey(db, pKey, nKey): prints that it is not implemented, then
\* calls sqlite3_key
sqlite3_rekey(st, pKey, nKey, ndebug) == sqlite3_key(st, pKey, nKey, ndebug)

\* sqlite3CodecGetKey(db, nDb, &zKey, &nKey), the out parameters holding
\* zKey0 and nKey0 before the call: their values after it
sqlite3CodecGetKey(nDb, zKey0, nKey0) ==
  IF hasBt[nDb]
  THEN IF codec[nDb] # NULL
       THEN [zKey |-> ctxs[codec[nDb]].key, nKey |-> ctxs[codec[nDb]].key_sz]
       ELSE [zKey |-> 0, nKey |-> 0]
  ELSE [zKey |-> zKey0, nKey |-> nKey0]

(* ------------------------------------------------------------------ *)
(* Inputs                                                              *)
(* ------------------------------------------------------------------ *)

\* passphrases "cat" and "dog"
Passphrases == {<<99, 97, 116>>, <<100, 111, 103>>}

\* x'<h hex digits>': the digits a, 1, a, 1, ...
HexLiteral(h) ==
  <<120, 39>> \o [i \in 1..h |-> IF i % 2 = 1 THEN 97 ELSE 49] \o <<39>>

\* the number of hex digits of a blob literal
HexDigits(cred) == Len(cred) - 3

\* the digit counts tried: exact, odd, shorter, longer
HexCounts == {2 * KEY_SZ, 2 * KEY_SZ + 1, 2 * KEY_SZ - 2, 2 * KEY_SZ + 2}

\* the credentials passed to sqlite3_key: passphrases, blob literals, and the
\* empty credential (nKey = 0)
Credentials == Passphrases \cup {HexLiteral(h) : h \in HexCounts} \cup {<<>>}

\* plaintext pages of s bytes: one that starts with the file header, as the
\* page 1 SQLite writes does, and one that does not
HeaderPage(s) == SQLITE_FILE_HEADER \o [i \in 1..(s - RAND_SZ) |-> (3 * i) % 256]
RawPage(s) == [i \in 1..s |-> 200 - i]
PlainPages(s) == {HeaderPage(s), RawPage(s)}

\* an encrypted database file that exists before the program starts: written
\* under the passphrase "cat" with its own salt
FileSalt == Fill(RAND_SZ, 9)
FileKey == codec_passphrase_hash(<<99, 97, 116>>, 3)
FilePlain(n) ==
  IF n = 1 THEN HeaderPage(DefaultPageSize) ELSE RawPage(DefaultPageSize)
ExistingFile ==
  [n \in Pgnos |->
     PageImage(FileKey, FileSalt, FilePlain(n), n, 1, DefaultPageSize)]
ExistingWritten ==
  [n \in Pgnos |-> [p |-> FilePlain(n), key |-> FileKey, salt |-> FileSalt]]

NoPage == [p |-> <<>>, key |-> <<>>, salt |-> <<>>]
EmptyFile == [n \in Pgnos |-> <<>>]
EmptyWritten == [n \in Pgnos |-> NoPage]

\* the record of a call, before its fields are filled in
NoCall ==
  [op |-> "none", db |-> 0, pgno |-> 0, mode |-> 0, in |-> <<>>,
   caller |-> <<>>, ret |-> "", page |-> <<>>, cred |-> <<>>,
   zKey0 |-> 0, nKey0 |-> 0, zKey |-> 0, nKey |-> 0]

(* ------------------------------------------------------------------ *)
(* Initial state                                                       *)
(* ------------------------------------------------------------------ *)

Init ==
  /\ running = TRUE
  /\ hasBt \in {[i \in DBs |-> TRUE], [i \in DBs |-> i = 0]}
  /\ pageSize = [i \in DBs |-> DefaultPageSize]
  /\ fileExisted \in BOOLEAN
  /\ disk = [i \in DBs |->
               IF i = 0 /\ fileExisted THEN ExistingFile ELSE EmptyFile]
  /\ written = [i \in DBs |->
               IF i = 0 /\ fileExisted THEN ExistingWritten ELSE EmptyWritten]
  /\ p1done = {}
  /\ heap = <<>>
  /\ ctxs = <<>>
  /\ codec = [i \in DBs |-> NULL]
  /\ last = NoCall
  /\ nCalls = 0

(* ------------------------------------------------------------------ *)
(* Actions                                                             *)
(* ------------------------------------------------------------------ *)

State == [heap |-> heap, ctxs |-> ctxs, codec |-> codec, running |-> running]

SetState(st) ==
  /\ heap' = st.heap
  /\ ctxs' = st.ctxs
  /\ codec' = st.codec
  /\ running' = st.running

\* the application sets the key
Key(cred, ndebug) ==
  /\ running
  /\ SetState(sqlite3_key(State, cred, Len(cred), ndebug))
  /\ last' = [NoCall EXCEPT !.op = "key", !.cred = cred]
  /\ nCalls' = nCalls + 1
  /\ UNCHANGED <<hasBt, pageSize, disk, written, fileExisted, p1done>>

\* the application changes the key
Rekey(cred, ndebug) ==
  /\ running
  /\ SetState(sqlite3_rekey(State, cred, Len(cred), ndebug))
  /\ last' = [NoCall EXCEPT !.op = "rekey", !.cred = cred]
  /\ nCalls' = nCalls + 1
  /\ UNCHANGED <<hasBt, pageSize, disk, written, fileExisted, p1done>>

\* the key and the salt a context holds
CtxKey(h, c) == MemRead("slack", h, c.key, c.key_sz)
CtxSalt(h, c) == MemRead("slack", h, c.rand, RAND_SZ)

\* one call of the codec of database i by its pager; op says what the pager
\* does with the result ("write": it stores the returned page in the file)
Transform(i, pData, pgno, mode, op, layout) ==
  LET c == ctxs[codec[i]]
      r == sqlite3Codec(layout, heap, c, pageSize[i], pData, pgno, mode)
  IN  /\ running
      /\ codec[i] # NULL
      /\ nCalls' = nCalls + 1
      /\ IF r.fault
         THEN /\ running' = FALSE
              /\ last' = [NoCall EXCEPT !.op = "fault", !.db = i,
                                        !.pgno = pgno, !.mode = mode,
                                        !.in = pData]
              /\ UNCHANGED <<heap, disk, written, p1done>>
         ELSE /\ running' = TRUE
              /\ heap' = r.heap
              /\ last' = [NoCall EXCEPT !.op = op, !.db = i, !.pgno = pgno,
                                        !.mode = mode, !.in = pData,
                                        !.caller = r.caller, !.ret = r.ret,
                                        !.page = r.page]
              /\ IF op = "write"
                 THEN /\ disk' = [disk EXCEPT ![i][pgno] = r.page]
                      /\ written' = [written EXCEPT ![i][pgno] =
                           [p |-> pData, key |-> CtxKey(heap, c),
                            salt |-> CtxSalt(heap, c)]]
                 ELSE UNCHANGED <<disk, written>>
              /\ p1done' = IF pgno = 1 /\ Emode(mode) # -1
                           THEN p1done \cup {<<codec[i], Emode(mode)>>}
                           ELSE p1done
      /\ UNCHANGED <<hasBt, pageSize, ctxs, codec, fileExisted>>

\* the pager writes page pgno: it stores what the codec returns
PagerWrite(i, pgno, pData, layout) ==
  Transform(i, pData, pgno, 6, "write", layout)

\* the pager reads page pgno: it hands the stored bytes to the codec
PagerRead(i, pgno, layout) ==
  /\ disk[i][pgno] # <<>>
  /\ Len(disk[i][pgno]) = pageSize[i]
  /\ Transform(i, disk[i][pgno], pgno, 0, "read", layout)

\* any other call of the codec: any mode, any page
CodecCall(i, pgno, pData, mode, layout) ==
  Transform(i, pData, pgno, mode, "codec", layout)

\* the application asks for the key
GetKey(i, zKey0, nKey0) ==
  LET r == sqlite3CodecGetKey(i, zKey0, nKey0)
  IN  /\ running
      /\ last' = [NoCall EXCEPT !.op = "getkey", !.db = i,
                                !.zKey0 = zKey0, !.nKey0 = nKey0,
                                !.zKey = r.zKey, !.nKey = r.nKey]
      /\ nCalls' = nCalls + 1
      /\ UNCHANGED <<running, hasBt, pageSize, disk, written, heap,
                     ctxs, codec, fileExisted, p1done>>

\* sqlite3BtreeSetPageSize: the page size of a store changes
SetPageSize(i, s) ==
  /\ running
  /\ hasBt[i]
  /\ s # pageSize[i]
  /\ pageSize' = [pageSize EXCEPT ![i] = s]
  /\ last' = [NoCall EXCEPT !.op = "pagesize", !.db = i]
  /\ nCalls' = nCalls + 1
  /\ UNCHANGED <<running, hasBt, disk, written, heap, ctxs, codec,
                 fileExisted, p1done>>

\* assert((n/2) == ctx->key_sz) checks nothing in a build with NDEBUG: both
\* builds are tried where the assertion would fail
Builds(cred) ==
  IF IsBlobLiteral(cred) /\ (HexDigits(cred) \div 2) # KEY_SZ
  THEN BOOLEAN ELSE {TRUE}

\* the layouts worth telling apart: all where the call of database i reaches
\* past the end of its scratch buffer, one where it does not
LayoutsAt(i) ==
  IF codec[i] # NULL /\ pageSize[i] > Len(heap[ctxs[codec[i]].buffer].data)
  THEN Layouts ELSE {"slack"}

\* the calls of the codec other than the pager's reads and writes:
\* <<page number, mode, page>>
CodecInputs(s) ==
  {<<1, 3, RawPage(s)>>, <<1, 3, HeaderPage(s)>>, <<2, 3, RawPage(s)>>,
   <<1, 7, RawPage(s)>>, <<2, 7, HeaderPage(s)>>, <<1, 5, RawPage(s)>>}

KeyStep ==
  /\ nCalls < MaxCalls
  /\ \E cred \in Credentials :
       \E ndebug \in Builds(cred) : Key(cred, ndebug)

RekeyStep ==
  /\ nCalls < MaxCalls
  /\ \E cred \in Passphrases : Rekey(cred, TRUE)

WriteStep ==
  /\ nCalls < MaxCalls
  /\ \E i \in DBs, pgno \in Pgnos :
       \E pData \in PlainPages(pageSize[i]), layout \in LayoutsAt(i) :
         PagerWrite(i, pgno, pData, layout)

ReadStep ==
  /\ nCalls < MaxCalls
  /\ \E i \in DBs, pgno \in Pgnos :
       \E layout \in LayoutsAt(i) : PagerRead(i, pgno, layout)

CodecStep ==
  /\ nCalls < MaxCalls
  /\ \E i \in DBs :
       \E in \in CodecInputs(pageSize[i]), layout \in LayoutsAt(i) :
         CodecCall(i, in[1], in[3], in[2], layout)

GetKeyStep ==
  /\ nCalls < MaxCalls
  /\ \E i \in DBs, prior \in Priors : GetKey(i, prior, prior)

SetPageSizeStep ==
  /\ nCalls < MaxCalls
  /\ \E i \in DBs, s \in PageSizes : SetPageSize(i, s)

\* the program with the page size of each store left as it was at attach
Next ==
  \/ KeyStep
  \/ RekeyStep
  \/ WriteStep
  \/ ReadStep
  \/ CodecStep
  \/ GetKeyStep

Spec == Init /\ [][Next]_vars

\* the program with page sizes that change under an attached codec
NextResize == Next \/ SetPageSizeStep

SpecResize == Init /\ [][NextResize]_vars

\* the pager scenario: one attach with a passphrase, then writes and reads
RWKeyStep ==
  /\ nCalls < MaxRWCalls
  /\ ctxs = <<>>
  /\ \E cred \in Passphrases : Key(cred, TRUE)

RWWriteStep ==
  /\ nCalls < MaxRWCalls
  /\ \E i \in DBs, pgno \in Pgnos :
       \E pData \in PlainPages(pageSize[i]) :
         PagerWrite(i, pgno, pData, "slack")

RWReadStep ==
  /\ nCalls < MaxRWCalls
  /\ \E i \in DBs, pgno \in Pgnos : PagerRead(i, pgno, "slack")

NextRW == RWKeyStep \/ RWWriteStep \/ RWReadStep

SpecRW == Init /\ [][NextRW]_vars

(* ------------------------------------------------------------------ *)
(* What the claims speak of                                            *)
(* ------------------------------------------------------------------ *)

Attached(i) == codec[i] # NULL

Ctx(i) == ctxs[codec[i]]

\* the key, the salt and the scratch buffer of the context of database i
KeyOf(i) == CtxKey(heap, Ctx(i))
SaltOf(i) == CtxSalt(heap, Ctx(i))
ScratchOf(i) == heap[Ctx(i).buffer].data

\* the last step was a call of the page transform that returned
IsCall == last.op \in {"codec", "read", "write"}

KeyOps == {"key", "rekey"}

\* a plaintext with the file header in its first 16 bytes
WithFileHeader(p) == memcpy(p, SQLITE_FILE_HEADER, RAND_SZ)

\* the blocks a context owns
BlocksOf(c) == {c.rand, c.buffer, c.key}

(* C1: a call in encrypt mode leaves the caller's page as it was and returns
   the context's scratch buffer; a call in decrypt mode returns the caller's
   page, which then holds the page-size content of the scratch buffer. *)
C1_BufferConvention ==
  IsCall =>
    /\ last.mode \in EncryptModes =>
         /\ last.caller = last.in
         /\ last.ret = "buffer"
         /\ last.page = Take(ScratchOf(last.db), pageSize[last.db])
    /\ last.mode \in DecryptModes =>
         /\ last.ret = "pData"
         /\ last.caller = Take(ScratchOf(last.db), pageSize[last.db])

\* a decrypt of page 1 has returned, and has changed the caller's page
C1_Witness ==
  /\ IsCall
  /\ last.mode \in DecryptModes
  /\ last.pgno = 1
  /\ last.ret = "pData"
  /\ last.caller # last.in

\* the layout of an encrypted page 1: salt, bytes 16-23 as given, ciphertext
Page1Layout ==
  (last.op = "write" /\ last.pgno = 1) =>
    /\ Take(last.page, RAND_SZ) = written[last.db][1].salt
    /\ SubSeq(last.page, RAND_SZ + 1, HDR_SZ) = SubSeq(last.in, RAND_SZ + 1, HDR_SZ)
    /\ Drop(last.page, HDR_SZ) =
         codec_cipher(written[last.db][1].key, written[last.db][1].salt, 1, 1,
                      pageSize[last.db] - HDR_SZ, Drop(last.in, HDR_SZ))

\* a read of page 1 by a context that holds the key the page was written with
Page1ReadBack ==
  /\ last.op = "read"
  /\ last.pgno = 1
  /\ written[last.db][1].key = KeyOf(last.db)

(* C2, as claimed: page 1 encrypts to salt, cleartext bytes 16-23 and
   ciphertext, and decrypting it, in the same context or in a new context with
   the same key, gives back the plaintext in every byte and the salt used at
   encryption. *)
C2_RoundTripExact ==
  /\ Page1Layout
  /\ Page1ReadBack =>
       /\ last.caller = written[last.db][1].p
       /\ SaltOf(last.db) = written[last.db][1].salt

(* C2, as amended: the decrypted page equals the plaintext from byte 16 on and
   holds the SQLite file header in bytes 0-15; the salt is the one used at
   encryption. *)
C2_RoundTripHeader ==
  /\ Page1Layout
  /\ Page1ReadBack =>
       /\ last.caller = WithFileHeader(written[last.db][1].p)
       /\ SaltOf(last.db) = written[last.db][1].salt

\* page 1 was read back by a context that drew another salt at attach, and the
\* plaintext came back whole
C2_Witness ==
  /\ Page1ReadBack
  /\ last.caller = written[last.db][1].p
  /\ SaltOf(last.db) # RandomSalt(codec[last.db])

(* C3, as claimed: once a context has transformed page 1, its salt never
   changes. *)
C3_SaltStable ==
  [][\A k \in 1..Len(ctxs) :
       (\E e \in {0, 1} : <<k, e>> \in p1done) =>
         CtxSalt(heap', ctxs[k]) = CtxSalt(heap, ctxs[k])]_vars

(* C3, as amended: the salt of a context changes only in a decrypt of page 1
   by that context, which sets it to bytes 0-15 of the page given. *)
C3_SaltSetByPage1Decrypt ==
  [][\A k \in 1..Len(ctxs) :
       CtxSalt(heap', ctxs[k]) # CtxSalt(heap, ctxs[k]) =>
         /\ last'.op \in {"codec", "read", "write"}
         /\ codec[last'.db] = k
         /\ last'.pgno = 1
         /\ last'.mode \in DecryptModes
         /\ CtxSalt(heap', ctxs[k]) = Take(last'.in, RAND_SZ)]_vars

\* a context that had encrypted page 1 took another salt from a page 1 it
\* decrypted
C3_Witness ==
  /\ IsCall
  /\ last.pgno = 1
  /\ last.mode \in DecryptModes
  /\ <<codec[last.db], 1>> \in p1done
  /\ SaltOf(last.db) = Take(last.in, RAND_SZ)
  /\ SaltOf(last.db) # RandomSalt(codec[last.db])

\* the store of the last call was empty when the program started
FreshStore == ~(fileExisted /\ last.db = 0)

\* after the first decrypt of page 1, the context works with the file's salt
UsesFileSalt ==
  \A i \in DBs :
    (Attached(i) /\ <<codec[i], 0>> \in p1done) =>
      SaltOf(i) = Take(disk[i][1], RAND_SZ)

(* C4, as claimed: every read of a page returns exactly the plaintext last
   written to it, and after the first decrypt of page 1 the salt is the
   file's. *)
C4_ReadAfterWrite ==
  /\ (last.op = "read" /\ FreshStore) =>
       last.caller = written[last.db][last.pgno].p
  /\ UsesFileSalt

(* C4, as amended: a read of a page other than 1 returns exactly the plaintext
   last written; a read of page 1 returns it with the SQLite file header in
   bytes 0-15. *)
C4_ReadAfterWriteHeader ==
  /\ (last.op = "read" /\ FreshStore) =>
       last.caller = IF last.pgno = 1
                     THEN WithFileHeader(written[last.db][last.pgno].p)
                     ELSE written[last.db][last.pgno].p
  /\ UsesFileSalt

\* page 2 was read back after page 1 was written and read in the same store
C4_Witness ==
  /\ last.op = "read"
  /\ last.pgno = 2
  /\ FreshStore
  /\ disk[last.db][1] # <<>>
  /\ <<codec[last.db], 0>> \in p1done
  /\ last.caller = written[last.db][2].p

\* the last step called sqlite3_key or sqlite3_rekey
KeyCalled == last'.op \in KeyOps /\ nCalls' = nCalls + 1

(* C5: an attach to a database that has a context fails and leaves the
   context (key, salt, scratch buffer) and the registered codec as they were,
   so that one context exists per attached database. *)
C5_SecondAttachRejected ==
  [][KeyCalled =>
       \A i \in DBs :
         Attached(i) =>
           /\ codec'[i] = codec[i]
           /\ \A a \in BlocksOf(Ctx(i)) : heap'[a] = heap[a]
           /\ Cardinality({k \in 1..Len(ctxs') : ctxs'[k].pBt = i}) = 1]_vars

\* a call made while the page size of the store is not the size the scratch
\* buffer was allocated for
Mismatched ==
  /\ last.op \in {"codec", "read", "write", "fault"}
  /\ Emode(last.mode) # -1
  /\ pageSize[last.db] # Len(ScratchOf(last.db))

(* C6: a transform called while the page size differs from the size of the
   scratch buffer fails with BufferSizeMismatch, writes nothing outside the
   scratch buffer and leaves the caller's page and the salt as they were. *)
C6_MismatchFails ==
  Mismatched =>
    /\ last.ret = "BufferSizeMismatch"
    /\ last.caller = last.in
    /\ \A a \in 1..Len(heap) : heap[a].slack = <<>>

(* C7: a blob literal of exactly 2 * key_length hex digits attaches a key of
   key_length bytes; with any other number of digits the attach fails and
   registers no codec. *)
C7_HexLengthChecked ==
  [][(KeyCalled /\ IsBlobLiteral(last'.cred)) =>
       IF HexDigits(last'.cred) = 2 * KEY_SZ
       THEN \A i \in DBs : hasBt[i] => codec'[i] # codec[i]
       ELSE codec' = codec]_vars

\* the heap h once context c has decrypted the stored page 1 of database i,
\* as the pager does before it reads any other page
ReadHeap(h, c, i) ==
  IF disk[i][1] # <<>>
  THEN sqlite3Codec("slack", h, c, pageSize[i], disk[i][1], 1, 0).heap
  ELSE h

\* on heap h, context c decrypts every stored page of database i to the
\* plaintext written to it
Readable(h, c, i) ==
  LET h1 == ReadHeap(h, c, i)
  IN  \A n \in Pgnos :
        disk[i][n] # <<>> =>
          sqlite3Codec("slack", h1, c, pageSize[i], disk[i][n], n, 0).caller
            = IF n = 1 THEN WithFileHeader(written[i][n].p)
                       ELSE written[i][n].p

HasPages(i) == \E n \in Pgnos : disk[i][n] # <<>>

(* C8: a rekey that changes the key leaves every stored page readable under
   the context's new key and salt (or is rejected, and changes nothing). *)
C8_RekeyKeepsPagesReadable ==
  [][(last'.op = "rekey" /\ nCalls' = nCalls + 1) =>
       \A i \in DBs :
         (/\ Attached(i)
          /\ HasPages(i)
          /\ Readable(heap, Ctx(i), i)
          /\ CtxKey(heap', ctxs'[codec'[i]]) # KeyOf(i))
           => Readable(heap', ctxs'[codec'[i]], i)]_vars

\* the heap with only the blocks of context c
Alone(c) ==
  [a \in 1..Len(heap) |-> IF a \in BlocksOf(c) THEN heap[a] ELSE Block(<<>>)]

(* C9: contexts are independent: no two contexts share a block; a transform
   called on one context leaves the key, the salt and the scratch buffer of
   every other context as they were, and returns what it returns when the
   other contexts are not there. *)
C9_ContextsIndependent ==
  [][/\ \A j, k \in 1..Len(ctxs) :
          j # k => BlocksOf(ctxs[j]) \cap BlocksOf(ctxs[k]) = {}
     /\ (last'.op \in {"codec", "read", "write"} /\ nCalls' = nCalls + 1) =>
          /\ \A k \in 1..Len(ctxs) :
               k # codec[last'.db] =>
                 \A a \in BlocksOf(ctxs[k]) : heap'[a] = heap[a]
          /\ LET c == Ctx(last'.db)
                 r == sqlite3Codec("slack", Alone(c), c, pageSize[last'.db],
                                   last'.in, last'.pgno, last'.mode)
             IN  last'.caller = r.caller /\ last'.page = r.page]_vars

\* both databases have a context, both scratch buffers have been used, and the
\* last call was on database 1
C9_Witness ==
  /\ Attached(0)
  /\ Attached(1)
  /\ IsCall
  /\ last.db = 1
  /\ Emode(last.mode) # -1
  /\ ScratchOf(0) # Fill(pageSize[0], 0)
  /\ ScratchOf(1) # ScratchOf(0)

(* C10: the key query returns the key and the key length of the context when
   one is attached, and 0 and 0 when none is. *)
C10_NoneWhenNotAttached ==
  last.op = "getkey" =>
    IF Attached(last.db)
    THEN last.zKey = Ctx(last.db).key /\ last.nKey = Ctx(last.db).key_sz
    ELSE last.zKey = 0 /\ last.nKey = 0

====
